---- MODULE Spec2Model ----
(***************************************************************************)
(* Model of the email_calendar availability scripts.                       *)
(*   impl = 1 : src/availability.py   (ics + dateutil.rrule)               *)
(*   impl = 2 : src/availability2.py  (icalendar + recurring_ical_events)  *)
(*   impl = 0 : a library function called on its own (no main around it)   *)
(* Instants are whole hours counted from 00:00 of day 0 in the reference   *)
(* timezone; day 0 is a Monday.  An interval is a pair <<start, end>>.     *)
(***************************************************************************)
EXTENDS Integers, Sequences, FiniteSets, TLC

VARIABLES
    pc,              \* control position of the running script or function
    impl,            \* which script runs (0: a bare function call)
    now,             \* datetime.now() of the run, in hours
    events,          \* impl 1: calendar.events; impl 2: expanded occurrences
    start_date,      \* parse_ics: start of the expansion range
    end_date,        \* parse_ics: end of the expansion range
    idx,             \* parse_ics: position of the for loop over the events
    busy_intervals,  \* the busy list (built by parse_ics, read by the sweep)
    nw_start,        \* next_weekdays: the start_date argument (a day number)
    count,           \* next_weekdays: the count argument
    current_date,    \* next_weekdays: the date the while loop looks at
    weekdays,        \* next_weekdays: the dates collected so far
    day_i,           \* main: position of the for loop over all_days
    day,             \* calculate_availability: the day argument
    availability,    \* calculate_availability: the returned list
    output_timezone, \* main (impl 2): the display timezone argument
    out              \* what the run has printed, in order

vars == <<pc, impl, now, events, start_date, end_date, idx, busy_intervals,
          nw_start, count, current_date, weekdays, day_i, day, availability,
          output_timezone, out>>

(***************************************************************************)
(* Program constants.                                                      *)
(***************************************************************************)
HoursPerDay == 24
DayStartHour == 9
DayEndHour == 18
RangeDays == 30
DefaultCount == 5
FirstWeekendDay == 5
DaysPerWeek == 7

(***************************************************************************)
(* Bounds of the model.                                                    *)
(***************************************************************************)
MaxBusy == 2
MaxDay == 2
MaxEvents == 2
MaxStart == 13
MaxCount == 6

Max(a, b) == IF a < b THEN b ELSE a

\* datetime.combine(day, 09:00) and (day, 18:00), localized
day_start(d) == d * HoursPerDay + DayStartHour
day_end(d) == d * HoursPerDay + DayEndHour

\* date.weekday(): 0 = Monday .. 6 = Sunday
weekday(d) == d % DaysPerWeek

(***************************************************************************)
(* calculate_availability of src/availability.py: the for loop from        *)
(* position i on, with cursor cur and the gaps found so far.               *)
(***************************************************************************)
RECURSIVE SweepLoop1(_, _, _, _, _)
SweepLoop1(busy, i, cur, avail, dEnd) ==
    IF i > Len(busy) \/ dEnd <= cur
    THEN IF cur < dEnd THEN Append(avail, <<cur, dEnd>>) ELSE avail
    ELSE SweepLoop1(busy, i + 1, Max(cur, busy[i][2]),
                    IF cur < busy[i][1]
                    THEN Append(avail, <<cur, busy[i][1]>>) ELSE avail,
                    dEnd)

CalculateAvailability1(busy, d) ==
    SweepLoop1(busy, 1, day_start(d), <<>>, day_end(d))

(***************************************************************************)
(* Variants of the loop of src/availability2.py with a slip in it: the     *)
(* cursor set to the busy end without max(); a gap emitted on cur <= start.*)
(***************************************************************************)
RECURSIVE SweepLoop2_NoMax(_, _, _, _, _)
SweepLoop2_NoMax(busy, i, cur, avail, dEnd) ==
    IF i > Len(busy) \/ dEnd <= cur \/ dEnd <= busy[i][1]
    THEN IF cur < dEnd THEN Append(avail, <<cur, dEnd>>) ELSE avail
    ELSE SweepLoop2_NoMax(busy, i + 1, busy[i][2],
                          IF cur < busy[i][1]
                          THEN Append(avail, <<cur, busy[i][1]>>) ELSE avail,
                          dEnd)

RECURSIVE SweepLoop2_EmitEmpty(_, _, _, _, _)
SweepLoop2_EmitEmpty(busy, i, cur, avail, dEnd) ==
    IF i > Len(busy) \/ dEnd <= cur \/ dEnd <= busy[i][1]
    THEN IF cur < dEnd THEN Append(avail, <<cur, dEnd>>) ELSE avail
    ELSE SweepLoop2_EmitEmpty(busy, i + 1, Max(cur, busy[i][2]),
                              IF cur <= busy[i][1]
                              THEN Append(avail, <<cur, busy[i][1]>>) ELSE avail,
                              dEnd)

(***************************************************************************)
(* calculate_availability of src/availability2.py: as above, and the loop  *)
(* also stops at a busy interval that starts at or after day_end.          *)
(***************************************************************************)
RECURSIVE SweepLoop2(_, _, _, _, _)
SweepLoop2(busy, i, cur, avail, dEnd) ==
    IF i > Len(busy) \/ dEnd <= cur \/ dEnd <= busy[i][1]
    THEN IF cur < dEnd THEN Append(avail, <<cur, dEnd>>) ELSE avail
    ELSE SweepLoop2(busy, i + 1, Max(cur, busy[i][2]),
                    IF cur < busy[i][1]
                    THEN Append(avail, <<cur, busy[i][1]>>) ELSE avail,
                    dEnd)

CalculateAvailability2(busy, d) ==
    SweepLoop2(busy, 1, day_start(d), <<>>, day_end(d))

(***************************************************************************)
(* Values the variables hold while the part they belong to is not running. *)
(***************************************************************************)
NoTimezone == "-"

ParseIdle ==
    /\ now = 0
    /\ events = <<>>
    /\ start_date = 0
    /\ end_date = 0
    /\ idx = 0

WeekdaysIdle ==
    /\ nw_start = 0
    /\ count = 0
    /\ current_date = 0
    /\ weekdays = <<>>

MainIdle ==
    /\ day_i = 0
    /\ output_timezone = NoTimezone
    /\ out = <<>>

(***************************************************************************)
(* The sweep called on its own.  The instants a busy interval may start or *)
(* end at: 10:00 of day 0; 09:00, 10:00, 11:00, 12:00, 13:00 and 18:00 of  *)
(* day 1; 10:00 of day 2.  The lists are sorted by start, as parse_ics     *)
(* returns them; an interval may have start > end (nothing rejects it).    *)
(***************************************************************************)
Instants == {10, 33, 34, 35, 36, 37, 42, 58}

Intervals == Instants \X Instants

IsSortedByStart(s) == \A k \in 1..(Len(s) - 1) : s[k][1] <= s[k + 1][1]

AllValid(s) == \A k \in 1..Len(s) : s[k][1] <= s[k][2]

SortedBusyLists ==
    {s \in UNION {[1..n -> Intervals] : n \in 0..MaxBusy} : IsSortedByStart(s)}

SweepInit ==
    /\ pc = "sweep_call"
    /\ impl \in {1, 2}
    /\ busy_intervals \in SortedBusyLists
    /\ day \in 0..MaxDay
    /\ availability = <<>>
    /\ ParseIdle
    /\ WeekdaysIdle
    /\ MainIdle

CallCalculateAvailability1 ==
    /\ pc = "sweep_call"
    /\ impl = 1
    /\ availability' = CalculateAvailability1(busy_intervals, day)
    /\ pc' = "sweep_returned"
    /\ UNCHANGED <<impl, now, events, start_date, end_date, idx, busy_intervals,
                   nw_start, count, current_date, weekdays, day_i, day,
                   output_timezone, out>>

CallCalculateAvailability2 ==
    /\ pc = "sweep_call"
    /\ impl = 2
    /\ availability' = CalculateAvailability2(busy_intervals, day)
    /\ pc' = "sweep_returned"
    /\ UNCHANGED <<impl, now, events, start_date, end_date, idx, busy_intervals,
                   nw_start, count, current_date, weekdays, day_i, day,
                   output_timezone, out>>

SweepNext == CallCalculateAvailability1 \/ CallCalculateAvailability2

SpecSweep == SweepInit /\ [][SweepNext]_vars

(***************************************************************************)
(* Properties of the sweep.                                                *)
(***************************************************************************)
SweepReturned == pc = "sweep_returned"

\* the hour [t, t + 1] lies in a returned free interval / in a busy interval
FreeAt(t) ==
    \E k \in 1..Len(availability) :
        availability[k][1] <= t /\ t + 1 <= availability[k][2]

BusyAt(t) ==
    \E k \in 1..Len(busy_intervals) :
        busy_intervals[k][1] <= t /\ t + 1 <= busy_intervals[k][2]

\* C1: every returned free interval lies within [day_start, day_end] of the
\* day, for every busy list sorted by start with start <= end in each
\* interval, in both implementations.
C1_Containment ==
    (SweepReturned /\ IsSortedByStart(busy_intervals) /\ AllValid(busy_intervals)) =>
        \A k \in 1..Len(availability) :
            /\ day_start(day) <= availability[k][1]
            /\ availability[k][2] <= day_end(day)

\* C2: for a sorted busy list with start <= end in each interval, every hour
\* of the window is in a returned free interval or in a busy interval and
\* never in both; busy 10:00-12:00 and 11:00-13:00 leave exactly 09:00-10:00
\* and 13:00-18:00.
C2_Complementarity ==
    (SweepReturned /\ IsSortedByStart(busy_intervals) /\ AllValid(busy_intervals)) =>
        /\ \A t \in day_start(day)..(day_end(day) - 1) : FreeAt(t) # BusyAt(t)
        /\ (day = 1 /\ busy_intervals = << <<34, 36>>, <<35, 37>> >>) =>
               availability = << <<33, 34>>, <<37, 42>> >>

C2_Witness ==
    /\ SweepReturned
    /\ day = 1
    /\ busy_intervals = << <<34, 36>>, <<35, 37>> >>
    /\ availability = << <<33, 34>>, <<37, 42>> >>

\* C3: any two adjacent returned intervals a, b satisfy a.end <= b.start, for
\* every busy list sorted by start.
C3_NonOverlap ==
    (SweepReturned /\ IsSortedByStart(busy_intervals)) =>
        \A k \in 1..(Len(availability) - 1) :
            availability[k][2] <= availability[k + 1][1]

\* C4: every returned interval (a, b) has a < b, and a busy interval equal to
\* the whole window leaves the empty list.
C4_NoEmptyInterval ==
    SweepReturned =>
        /\ \A k \in 1..Len(availability) : availability[k][1] < availability[k][2]
        /\ (busy_intervals = << <<day_start(day), day_end(day)>> >>) =>
               availability = <<>>

C4_Witness ==
    /\ SweepReturned
    /\ day = 1
    /\ busy_intervals = << <<33, 42>> >>
    /\ availability = <<>>

\* C10: no availability result is returned that was computed from a busy
\* interval with start > end: such an interval is surfaced as an error.
C10_InvalidIntervalSurfaced ==
    SweepReturned => AllValid(busy_intervals)

(***************************************************************************)
(* next_weekdays (the same code in both scripts), one step per iteration   *)
(* of its while loop.  Called on its own (impl = 0) or by main.            *)
(***************************************************************************)
IsWeekday_OffByOne(d) == weekday(d) <= FirstWeekendDay

IsWeekday(d) == weekday(d) < FirstWeekendDay

WeekdaysInit ==
    /\ pc = "nw_loop"
    /\ impl = 0
    /\ nw_start \in 0..MaxStart
    /\ count \in 0..MaxCount
    /\ current_date = nw_start
    /\ weekdays = <<>>
    /\ busy_intervals = <<>>
    /\ day = 0
    /\ availability = <<>>
    /\ ParseIdle
    /\ MainIdle

NextWeekdaysStep ==
    /\ pc = "nw_loop"
    /\ Len(weekdays) < count
    /\ weekdays' = IF IsWeekday(current_date)
                   THEN Append(weekdays, current_date) ELSE weekdays
    /\ current_date' = current_date + 1
    /\ UNCHANGED <<pc, impl, now, events, start_date, end_date, idx,
                   busy_intervals, nw_start, count, day_i, day, availability,
                   output_timezone, out>>

NextWeekdaysReturn ==
    /\ pc = "nw_loop"
    /\ ~(Len(weekdays) < count)
    /\ pc' = IF impl = 0 THEN "nw_returned" ELSE "days"
    /\ UNCHANGED <<impl, now, events, start_date, end_date, idx,
                   busy_intervals, nw_start, count, current_date, weekdays,
                   day_i, day, availability, output_timezone, out>>

WeekdaysNext == NextWeekdaysStep \/ NextWeekdaysReturn

\* a sequential program: the loop takes its next step whenever it has one
SpecWeekdays ==
    /\ WeekdaysInit
    /\ [][WeekdaysNext]_vars
    /\ WF_vars(NextWeekdaysStep)
    /\ WF_vars(NextWeekdaysReturn)

WeekdaysReturned == pc = "nw_returned"

WeekdaysCorrect ==
    /\ Len(weekdays) = count
    /\ \A k \in 1..(Len(weekdays) - 1) : weekdays[k] < weekdays[k + 1]
    /\ \A k \in 1..Len(weekdays) :
           weekdays[k] >= nw_start /\ weekday(weekdays[k]) \in 0..4
    /\ \A d \in nw_start..(IF count = 0 THEN nw_start - 1 ELSE weekdays[count]) :
           weekday(d) \in 0..4 => \E k \in 1..Len(weekdays) : weekdays[k] = d

\* C8: next_weekdays(start, count) terminates for every start and every
\* count >= 0 and returns exactly count dates, strictly ascending, each a
\* Monday-to-Friday date on or after start, no weekday in between skipped.
C8_NextWeekdays ==
    /\ [](WeekdaysReturned => WeekdaysCorrect)
    /\ <>WeekdaysReturned

C8_Witness ==
    /\ WeekdaysReturned
    /\ nw_start = 3
    /\ count = 5
    /\ weekdays = <<3, 4, 7, 8, 9>>

(***************************************************************************)
(* The recurrence rule of an event.  extract_rrule gives None when the     *)
(* event has no RRULE line (freq = ""); rrulestr raises ValueError on a    *)
(* frequency it does not know; count = 0 stands for a rule without COUNT.  *)
(***************************************************************************)
NoRule == [freq |-> "", interval |-> 0, count |-> 0]

HasRule(e) == e.rrule.freq # ""

RuleParses(r) == r.freq \in {"DAILY", "WEEKLY"}

Period(r) ==
    r.interval * (IF r.freq = "WEEKLY" THEN DaysPerWeek * HoursPerDay
                  ELSE HoursPerDay)

\* a slip: between() taken with exclusive bounds (inc=False)
RECURSIVE RuleBetween_Exclusive(_, _, _, _, _)
RuleBetween_Exclusive(r, dtstart, k, after, before) ==
    LET o == dtstart + k * Period(r) IN
    IF (r.count > 0 /\ k >= r.count) \/ o >= before THEN <<>>
    ELSE IF o > after
         THEN <<o>> \o RuleBetween_Exclusive(r, dtstart, k + 1, after, before)
         ELSE RuleBetween_Exclusive(r, dtstart, k + 1, after, before)

\* rule.between(after, before, inc=True): the occurrences dtstart + k*period
\* from the k-th on, in order, until COUNT is used up or one passes `before`
RECURSIVE RuleBetween(_, _, _, _, _)
RuleBetween(r, dtstart, k, after, before) ==
    LET o == dtstart + k * Period(r) IN
    IF (r.count > 0 /\ k >= r.count) \/ o > before THEN <<>>
    ELSE IF o >= after
         THEN <<o>> \o RuleBetween(r, dtstart, k + 1, after, before)
         ELSE RuleBetween(r, dtstart, k + 1, after, before)

\* the intervals parse_ics appends for one event whose rule parses
EventIntervals(e, after, before) ==
    LET occ == IF HasRule(e)
               THEN RuleBetween(e.rrule, e.begin, 0, after, before) ELSE <<>>
    IN  << <<e.begin, e.begin + e.duration>> >> \o
        [k \in 1..Len(occ) |-> <<occ[k], occ[k] + e.duration>>]

(***************************************************************************)
(* busy_intervals.sort(key=lambda interval: interval[0]): a stable sort,   *)
(* here by inserting each element behind those with start <= its start.    *)
(***************************************************************************)
RECURSIVE InsertByStart_BeforeEqual(_, _)
InsertByStart_BeforeEqual(x, s) ==
    IF s = <<>> THEN <<x>>
    ELSE IF s[Len(s)][1] < x[1] THEN Append(s, x)
    ELSE Append(InsertByStart_BeforeEqual(x, SubSeq(s, 1, Len(s) - 1)), s[Len(s)])

RECURSIVE InsertByStart(_, _)
InsertByStart(x, s) ==
    IF s = <<>> THEN <<x>>
    ELSE IF s[Len(s)][1] <= x[1] THEN Append(s, x)
    ELSE Append(InsertByStart(x, SubSeq(s, 1, Len(s) - 1)), s[Len(s)])

RECURSIVE SortByStart(_)
SortByStart(s) ==
    IF s = <<>> THEN <<>>
    ELSE InsertByStart(s[Len(s)], SortByStart(SubSeq(s, 1, Len(s) - 1)))

(***************************************************************************)
(* The inputs of a run.                                                    *)
(***************************************************************************)
\* datetime.now(): 10:00 of day 1 (a Tuesday) or of day 2
Nows == {34, 58}

RuleTexts ==
    { NoRule,
      [freq |-> "WEEKLY", interval |-> 1, count |-> 0],
      [freq |-> "WEEKLY", interval |-> 1, count |-> 3],
      [freq |-> "DAILY", interval |-> 10, count |-> 0],
      [freq |-> "BOGUS", interval |-> 1, count |-> 0] }

\* calendar.events of src/availability.py
RawEvents == [begin : {10, 34, 800}, duration : {1, 2}, rrule : RuleTexts]

RawEventSeqs == UNION {[1..n -> RawEvents] : n \in 0..MaxEvents}

\* the occurrences recurring_ical_events hands to src/availability2.py
Occurrences == { <<34, 36>>, <<34, 35>>, <<35, 37>>, <<58, 59>>, <<36, 34>> }

OccurrenceSeqs == UNION {[1..n -> Occurrences] : n \in 0..MaxBusy}

\* pytz.all_timezones, and the keys of output_timezone_pretty
all_timezones == {"US/Central", "Asia/Kolkata", "Europe/Paris"}

output_timezone_pretty ==
    [tz \in {"US/Central", "Asia/Kolkata"} |->
        IF tz = "US/Central" THEN "CT" ELSE "IST"]

TimezoneArgs == {"US/Central", "Asia/Kolkata", "Europe/Paris", "Mars/Phobos"}

Header(d) == [kind |-> "header", day |-> d, zone |-> "", slots |-> <<>>]

Slots(z, a) == [kind |-> "slots", day |-> 0, zone |-> z, slots |-> a]

ErrorLine == [kind |-> "error", day |-> 0, zone |-> "", slots |-> <<>>]

Main1Init ==
    /\ pc = "fetch"
    /\ impl = 1
    /\ now \in Nows
    /\ events \in RawEventSeqs
    /\ output_timezone = NoTimezone
    /\ start_date = 0
    /\ end_date = 0
    /\ idx = 0
    /\ busy_intervals = <<>>
    /\ day_i = 0
    /\ day = 0
    /\ availability = <<>>
    /\ out = <<>>
    /\ WeekdaysIdle

Main2Init ==
    /\ pc = "validate"
    /\ impl = 2
    /\ now \in Nows
    /\ events \in OccurrenceSeqs
    /\ output_timezone \in TimezoneArgs
    /\ start_date = 0
    /\ end_date = 0
    /\ idx = 0
    /\ busy_intervals = <<>>
    /\ day_i = 0
    /\ day = 0
    /\ availability = <<>>
    /\ out = <<>>
    /\ WeekdaysIdle

Init == Main1Init \/ Main2Init

(***************************************************************************)
(* main of src/availability2.py, up to the try block: the display timezone *)
(* is checked against the registry.  The message of the unknown-timezone   *)
(* branch names timezone_input, which is defined nowhere: formatting it    *)
(* raises NameError outside any try, before anything is printed.           *)
(***************************************************************************)
Main2Validate ==
    /\ pc = "validate"
    /\ impl = 2
    /\ pc' = IF output_timezone \notin all_timezones THEN "crashed" ELSE "fetch"
    /\ UNCHANGED <<impl, now, events, start_date, end_date, idx, busy_intervals,
                   nw_start, count, current_date, weekdays, day_i, day,
                   availability, output_timezone, out>>

(***************************************************************************)
(* fetch_ics, and the entry of parse_ics.  A failed request raises inside  *)
(* main's try block.  preprocess_ics only renames timezones in the text;   *)
(* the events of the model carry their instants already.                   *)
(***************************************************************************)
FetchIcs1 ==
    /\ pc = "fetch"
    /\ impl = 1
    /\ \E ok \in BOOLEAN :
         IF ok
         THEN /\ pc' = "parse_loop"
              /\ start_date' = now
              /\ end_date' = now + RangeDays * HoursPerDay
              /\ idx' = 1
         ELSE /\ pc' = "except"
              /\ UNCHANGED <<start_date, end_date, idx>>
    /\ UNCHANGED <<impl, now, events, busy_intervals, nw_start, count,
                   current_date, weekdays, day_i, day, availability,
                   output_timezone, out>>

FetchIcs2 ==
    /\ pc = "fetch"
    /\ impl = 2
    /\ \E ok \in BOOLEAN : pc' = IF ok THEN "parse2" ELSE "except"
    /\ UNCHANGED <<impl, now, events, start_date, end_date, idx, busy_intervals,
                   nw_start, count, current_date, weekdays, day_i, day,
                   availability, output_timezone, out>>

(***************************************************************************)
(* parse_ics of src/availability.py, one step per event of its for loop:   *)
(* the base interval is appended, then the rule (if any) is parsed and its *)
(* occurrences within [start_date, end_date] are appended.  A rule that    *)
(* does not parse raises out of parse_ics (its list is lost) into main's   *)
(* except clause.                                                          *)
(***************************************************************************)
ParseIcsEvent ==
    /\ pc = "parse_loop"
    /\ impl = 1
    /\ idx <= Len(events)
    /\ IF HasRule(events[idx]) /\ ~RuleParses(events[idx].rrule)
       THEN /\ pc' = "except"
            /\ busy_intervals' = <<>>
            /\ idx' = idx
       ELSE /\ pc' = pc
            /\ busy_intervals' =
                   busy_intervals \o EventIntervals(events[idx], start_date, end_date)
            /\ idx' = idx + 1
    /\ UNCHANGED <<impl, now, events, start_date, end_date, nw_start, count,
                   current_date, weekdays, day_i, day, availability,
                   output_timezone, out>>

ParseIcsSort ==
    /\ pc = "parse_loop"
    /\ impl = 1
    /\ idx > Len(events)
    /\ busy_intervals' = SortByStart(busy_intervals)
    /\ pc' = "parsed"
    /\ UNCHANGED <<impl, now, events, start_date, end_date, idx, nw_start, count,
                   current_date, weekdays, day_i, day, availability,
                   output_timezone, out>>

(***************************************************************************)
(* parse_ics of src/availability2.py: the library has expanded the events  *)
(* of the next 30 days; their (DTSTART, DTEND) pairs are collected, sorted.*)
(***************************************************************************)
ParseIcs2 ==
    /\ pc = "parse2"
    /\ impl = 2
    /\ start_date' = (now \div HoursPerDay) * HoursPerDay
    /\ end_date' = (now \div HoursPerDay) * HoursPerDay + RangeDays * HoursPerDay
    /\ idx' = Len(events) + 1
    /\ busy_intervals' = SortByStart(events)
    /\ pc' = "parsed"
    /\ UNCHANGED <<impl, now, events, nw_start, count, current_date, weekdays,
                   day_i, day, availability, output_timezone, out>>

\* main: all_days = next_weekdays(), from today, count 5
CallNextWeekdays ==
    /\ pc = "parsed"
    /\ nw_start' = now \div HoursPerDay
    /\ count' = DefaultCount
    /\ current_date' = now \div HoursPerDay
    /\ weekdays' = <<>>
    /\ day_i' = 1
    /\ pc' = "nw_loop"
    /\ UNCHANGED <<impl, now, events, start_date, end_date, idx, busy_intervals,
                   day, availability, output_timezone, out>>

(***************************************************************************)
(* main, one step per day of `for day in all_days`.                        *)
(***************************************************************************)
MainDay1 ==
    /\ pc = "days"
    /\ impl = 1
    /\ day_i <= Len(weekdays)
    /\ day' = weekdays[day_i]
    /\ availability' = CalculateAvailability1(busy_intervals, weekdays[day_i])
    /\ out' = out \o <<Header(weekdays[day_i]), Slots("", availability')>>
    /\ day_i' = day_i + 1
    /\ UNCHANGED <<pc, impl, now, events, start_date, end_date, idx,
                   busy_intervals, nw_start, count, current_date, weekdays,
                   output_timezone>>

\* format_availability of src/availability2.py looks the timezone up
\* (UnknownTimeZoneError) before its loop, and the abbreviation (KeyError)
\* for each interval
MainDay2 ==
    /\ pc = "days"
    /\ impl = 2
    /\ day_i <= Len(weekdays)
    /\ day' = weekdays[day_i]
    /\ availability' = CalculateAvailability2(busy_intervals, weekdays[day_i])
    /\ IF \/ output_timezone \notin all_timezones
          \/ /\ availability' # <<>>
             /\ output_timezone \notin DOMAIN output_timezone_pretty
       THEN /\ out' = Append(out, Header(weekdays[day_i]))
            /\ pc' = "except"
            /\ day_i' = day_i
       ELSE /\ out' = out \o <<Header(weekdays[day_i]),
                               Slots(IF availability' = <<>> THEN ""
                                     ELSE output_timezone_pretty[output_timezone],
                                     availability')>>
            /\ pc' = pc
            /\ day_i' = day_i + 1
    /\ UNCHANGED <<impl, now, events, start_date, end_date, idx, busy_intervals,
                   nw_start, count, current_date, weekdays, output_timezone>>

MainDaysDone ==
    /\ pc = "days"
    /\ day_i > Len(weekdays)
    /\ pc' = "done"
    /\ UNCHANGED <<impl, now, events, start_date, end_date, idx, busy_intervals,
                   nw_start, count, current_date, weekdays, day_i, day,
                   availability, output_timezone, out>>

\* except Exception as e: print(f"Error: {e}"), and main ends
MainExcept ==
    /\ pc = "except"
    /\ out' = Append(out, ErrorLine)
    /\ pc' = "done"
    /\ UNCHANGED <<impl, now, events, start_date, end_date, idx, busy_intervals,
                   nw_start, count, current_date, weekdays, day_i, day,
                   availability, output_timezone>>

Next ==
    \/ Main2Validate
    \/ FetchIcs1
    \/ FetchIcs2
    \/ ParseIcsEvent
    \/ ParseIcsSort
    \/ ParseIcs2
    \/ CallNextWeekdays
    \/ NextWeekdaysStep
    \/ NextWeekdaysReturn
    \/ MainDay1
    \/ MainDay2
    \/ MainDaysDone
    \/ MainExcept

Spec == Init /\ [][Next]_vars

(***************************************************************************)
(* Properties of the builder and of the runs.                              *)
(***************************************************************************)
\* o is an occurrence of rule r anchored at `anchor`
IsOccurrence(r, anchor, o) ==
    /\ o >= anchor
    /\ (o - anchor) % Period(r) = 0
    /\ r.count = 0 \/ (o - anchor) \div Period(r) < r.count

RECURSIVE AscendingSeq(_)
AscendingSeq(S) ==
    IF S = {} THEN <<>>
    ELSE LET m == CHOOSE x \in S : \A y \in S : x <= y
         IN  <<m>> \o AscendingSeq(S \ {m})

\* what the claim says event e emits: its base interval, then one interval
\* for every occurrence o of its rule with start_date <= o <= end_date
ExpectedIntervals(e) ==
    LET occ == AscendingSeq({o \in start_date..end_date :
                                HasRule(e) /\ IsOccurrence(e.rrule, e.begin, o)})
    IN  << <<e.begin, e.begin + e.duration>> >> \o
        [k \in 1..Len(occ) |-> <<occ[k], occ[k] + e.duration>>]

RECURSIVE ExpectedUpTo(_)
ExpectedUpTo(n) ==
    IF n = 0 THEN <<>>
    ELSE ExpectedUpTo(n - 1) \o ExpectedIntervals(events[n])

WeeklyCount3 == [freq |-> "WEEKLY", interval |-> 1, count |-> 3]

RECURSIVE WithStart(_, _)
WithStart(s, k) ==
    IF s = <<>> THEN <<>>
    ELSE IF s[1][1] = k THEN <<s[1]>> \o WithStart(Tail(s), k)
    ELSE WithStart(Tail(s), k)

IsStableSortOf(t, s) ==
    /\ Len(t) = Len(s)
    /\ IsSortedByStart(t)
    /\ \A k \in {s[i][1] : i \in 1..Len(s)} \cup {t[i][1] : i \in 1..Len(t)} :
           WithStart(t, k) = WithStart(s, k)

\* C6: the list parse_ics returns is sorted ascending by start and is a
\* permutation of the intervals emitted, none merged, dropped or altered,
\* and intervals with equal start keep their emission order.
C6_StableSortedPermutation ==
    [][(pc # "parsed" /\ pc' = "parsed") =>
          IsStableSortOf(busy_intervals',
                         IF impl = 1 THEN busy_intervals ELSE events)]_vars

C6_Witness ==
    /\ impl = 1
    /\ pc = "parsed"
    /\ now = 34
    /\ events = << [begin |-> 34, duration |-> 2, rrule |-> WeeklyCount3],
                   [begin |-> 34, duration |-> 1, rrule |-> NoRule] >>
    /\ busy_intervals = << <<34, 36>>, <<34, 36>>, <<34, 35>>,
                           <<202, 204>>, <<370, 372>> >>

Printed(kind) == \E k \in 1..Len(out) : out[k].kind = kind

\* C7: when the rule of one event fails to parse in a run of
\* src/availability.py, the failure is reported, every event's intervals
\* (the failing event's base interval included) are in the busy list, and
\* the availability of the days is printed.
C7_MalformedRuleIsolated ==
    (/\ impl = 1
     /\ pc = "done"
     /\ idx > 0
     /\ \E j \in 1..Len(events) :
            HasRule(events[j]) /\ ~RuleParses(events[j].rrule)) =>
        /\ Printed("error")
        /\ \A j \in 1..Len(events) :
               LET e == events[j]
                   want == IF RuleParses(e.rrule) THEN ExpectedIntervals(e)
                           ELSE << <<e.begin, e.begin + e.duration>> >>
               IN  \A k \in 1..Len(want) :
                       \E m \in 1..Len(busy_intervals) : busy_intervals[m] = want[k]
        /\ Printed("header")

\* C9: a run of src/availability2.py with a display timezone that is not in
\* the registry reports the invalid name, does not end with an uncaught
\* exception, and prints no availability line converted to that timezone.
C9_UnknownTimezoneReported ==
    (/\ impl = 2
     /\ output_timezone \notin all_timezones
     /\ pc \in {"done", "crashed"}) =>
        /\ pc # "crashed"
        /\ Printed("invalid_timezone")
        /\ \A k \in 1..Len(out) : out[k].kind = "slots" => out[k].zone = ""

====
